---- MODULE Spec2Model ----
(***************************************************************************)
(* A model of src/app.py (FIT-FOR-ROLE.ai): text normalisation, keyword    *)
(* extraction, TF-IDF similarity scoring, missing-keyword analysis, the    *)
(* suggestion rule chain, and the per-job analysis loop of main().         *)
(*                                                                         *)
(* A text is a sequence of one-character strings.  Scores are kept in      *)
(* hundredths of a percent (9500 is 95.00 %), the precision main() rounds  *)
(* to.                                                                     *)
(***************************************************************************)
EXTENDS Integers, Sequences, FiniteSets, TLC

VARIABLES
    pc,                \* where the operation or the run of main() stands
    text,              \* get_keywords: its argument
    keywords_out,      \* get_keywords: its result
    resume_text,       \* the resume text handed to the core functions
    job_desc,          \* the job description handed to the core functions
    skill_score,       \* the skill score handed to the suggestion generator
    hash_order,        \* this process's iteration order of keyword sets
    score_out,         \* calculate_similarity: its result and return path
    missing_out,       \* analyze_missing: its result
    suggestions_out,   \* generate_tailored_suggestions: its result
    suggestions_again, \* the result of a second call with the same arguments
    faults,            \* the exceptions raised inside try blocks so far
    resume_file,       \* main: the uploaded file
    job_inputs,        \* main: the three text areas
    job_descriptions,  \* main: the non-blank job descriptions
    job_index,         \* main: index of the job being analysed
    results,           \* main: what was rendered per job
    errors,            \* main: the st.error messages shown
    calls              \* main: calls made to the extractor, scorer, generator

vars == <<pc, text, keywords_out, resume_text, job_desc, skill_score, hash_order,
          score_out, missing_out, suggestions_out, suggestions_again, faults,
          resume_file, job_inputs, job_descriptions, job_index, results, errors, calls>>

(***************************************************************************)
(* Characters.                                                             *)
(***************************************************************************)
LowerChars ==
    {"a","b","c","d","e","f","g","h","i","j","k","l","m",
     "n","o","p","q","r","s","t","u","v","w","x","y","z"}

UpperToLower ==
    ("A" :> "a") @@ ("B" :> "b") @@ ("C" :> "c") @@ ("D" :> "d") @@
    ("E" :> "e") @@ ("F" :> "f") @@ ("G" :> "g") @@ ("H" :> "h") @@
    ("I" :> "i") @@ ("J" :> "j") @@ ("K" :> "k") @@ ("L" :> "l") @@
    ("M" :> "m") @@ ("N" :> "n") @@ ("O" :> "o") @@ ("P" :> "p") @@
    ("Q" :> "q") @@ ("R" :> "r") @@ ("S" :> "s") @@ ("T" :> "t") @@
    ("U" :> "u") @@ ("V" :> "v") @@ ("W" :> "w") @@ ("X" :> "x") @@
    ("Y" :> "y") @@ ("Z" :> "z")

UpperChars == DOMAIN UpperToLower

DigitChars == {"0","1","2","3","4","5","6","7","8","9"}

\* what the regular expression class \s matches
Whitespace == {" ", "\n", "\t"}

\* what the regular expression class \w matches: letters, digits, underscore
WordChars == LowerChars \cup UpperChars \cup DigitChars \cup {"_"}

IsWordChar(c) == c \in WordChars

\* str.lower(), character by character
LowerChar(c) == IF c \in UpperChars THEN UpperToLower[c] ELSE c

lower(t) == [i \in 1..Len(t) |-> LowerChar(t[i])]

\* not t.strip(): nothing is left once the surrounding whitespace is removed
Blank(t) == \A i \in 1..Len(t) : t[i] \in Whitespace

(***************************************************************************)
(* clean_text: re.sub(r'\s+', ' ', text).lower()                           *)
(***************************************************************************)
RECURSIVE CollapseWs(_, _, _)
CollapseWs(t, i, acc) ==
    IF i > Len(t) THEN acc
    ELSE IF t[i] \in Whitespace
         THEN IF i > 1 /\ t[i-1] \in Whitespace
              THEN CollapseWs(t, i + 1, acc)
              ELSE CollapseWs(t, i + 1, Append(acc, " "))
         ELSE CollapseWs(t, i + 1, Append(acc, t[i]))

clean_text(t) == lower(CollapseWs(t, 1, <<>>))

(***************************************************************************)
(* get_keywords: re.findall(r'\b[a-z]{3,}\b', text.lower())                *)
(***************************************************************************)
\* \b at the gap before position i (1 <= i <= Len(t)+1): exactly one of the
\* two neighbours is a word character; beyond either end counts as a
\* non-word character.
WordBoundary(t, i) ==
    LET before == i > 1 /\ IsWordChar(t[i-1])
        after  == i <= Len(t) /\ IsWordChar(t[i])
    IN  before # after

\* the position after the longest run of [a-z] starting at i
RECURSIVE LetterRunEnd(_, _)
LetterRunEnd(t, i) ==
    IF i <= Len(t) /\ t[i] \in LowerChars THEN LetterRunEnd(t, i + 1) ELSE i

\* the pattern without its \b: [a-z]{3,}
KeywordMatchEnd_NoBoundary(t, i) ==
    IF LetterRunEnd(t, i) >= i + 3 THEN LetterRunEnd(t, i) ELSE 0

\* the largest element of a set of positions, 0 for the empty set
MaxOf(S) == IF S = {} THEN 0 ELSE CHOOSE e \in S : \A f \in S : f <= e

\* where the pattern \b[a-z]{3,}\b matches up to from position i, 0 when it
\* does not match there: the greedy quantifier takes the longest run of
\* letters first and backtracks to shorter ones, never below 3 letters,
\* until a \b follows
KeywordMatchEnd(t, i) ==
    IF WordBoundary(t, i)
    THEN MaxOf({k \in (i + 3)..LetterRunEnd(t, i) : WordBoundary(t, k)})
    ELSE 0

\* findall: the leftmost match, then on from its end
RECURSIVE FindAllKeywords(_, _, _)
RECURSIVE KeywordsFrom(_, _, _, _)
KeywordsFrom(t, i, acc, k) ==
    IF k = 0
    THEN FindAllKeywords(t, i + 1, acc)
    ELSE FindAllKeywords(t, k, Append(acc, SubSeq(t, i, k - 1)))

FindAllKeywords(t, i, acc) ==
    IF i > Len(t) THEN acc ELSE KeywordsFrom(t, i, acc, KeywordMatchEnd(t, i))

get_keywords(t) == FindAllKeywords(lower(t), 1, <<>>)

(***************************************************************************)
(* Sequence helpers.                                                       *)
(***************************************************************************)
Range(s) == {s[i] : i \in 1..Len(s)}

Min(a, b) == IF a <= b THEN a ELSE b

\* s[:n]
Take(s, n) == SubSeq(s, 1, Min(n, Len(s)))

\* collections.Counter(s)[w]: 0 for a key that is absent
Count(s, w) == Cardinality({i \in 1..Len(s) : s[i] = w})

\* w in t, for strings
Contains(t, w) ==
    \E i \in 1..(Len(t) - Len(w) + 1) : SubSeq(t, i, i + Len(w) - 1) = w

\* sep.join(parts)
RECURSIVE Join(_, _)
Join(parts, sep) ==
    IF parts = <<>> THEN <<>>
    ELSE IF Len(parts) = 1 THEN parts[1]
    ELSE parts[1] \o sep \o Join(Tail(parts), sep)

(***************************************************************************)
(* calculate_similarity.  TfidfVectorizer() lowercases, takes the maximal  *)
(* runs of two or more word characters (token pattern \b\w\w+\b) as terms, *)
(* weighs term counts by the smoothed inverse document frequency over the  *)
(* two documents, ln(3/(1+df))+1, and raises ValueError on an empty        *)
(* vocabulary.  The two idf values, 1 (term in both documents) and 1.405   *)
(* (term in one), are kept as the integers 5 and 7.                        *)
(***************************************************************************)
RECURSIVE WordRunEnd(_, _)
WordRunEnd(t, i) ==
    IF i <= Len(t) /\ IsWordChar(t[i]) THEN WordRunEnd(t, i + 1) ELSE i

\* where the pattern \b\w\w+\b matches up to from position i, 0 when it
\* does not match there
TermMatchEnd(t, i) ==
    IF WordBoundary(t, i) /\ WordRunEnd(t, i) >= i + 2 THEN WordRunEnd(t, i) ELSE 0

RECURSIVE FindAllTerms(_, _, _)
RECURSIVE TermsFrom(_, _, _, _)
TermsFrom(t, i, acc, k) ==
    IF k = 0
    THEN FindAllTerms(t, i + 1, acc)
    ELSE FindAllTerms(t, k, Append(acc, SubSeq(t, i, k - 1)))

FindAllTerms(t, i, acc) ==
    IF i > Len(t) THEN acc ELSE TermsFrom(t, i, acc, TermMatchEnd(t, i))

tfidf_terms(t) == FindAllTerms(lower(t), 1, <<>>)

IdfShared == 5

IdfSingle == 7

RECURSIVE SumOver(_, _)
SumOver(S, f) ==
    IF S = {} THEN 0
    ELSE LET x == CHOOSE y \in S : TRUE
         IN  f[x] + SumOver(S \ {x}, f)

\* floor of the square root
RECURSIVE ISqrtFrom(_, _)
ISqrtFrom(n, r) == IF (r + 1) * (r + 1) > n THEN r ELSE ISqrtFrom(n, r + 1)

ISqrt(n) == ISqrtFrom(n, 0)

\* the tf-idf weight of term w in the document with terms `doc`, the other
\* document having the terms `other`
TfIdf(doc, other, w) ==
    Count(doc, w) * (IF w \in Range(doc) /\ w \in Range(other) THEN IdfShared ELSE IdfSingle)

\* the dot product of the two tf-idf vectors
Dot(r, j) ==
    SumOver(Range(r) \cap Range(j), [w \in Range(r) \cap Range(j) |-> TfIdf(r, j, w) * TfIdf(j, r, w)])

\* the squared length of the tf-idf vector of `doc`
NormSq(doc, other) ==
    SumOver(Range(doc), [w \in Range(doc) |-> TfIdf(doc, other, w) * TfIdf(doc, other, w)])

\* floor(10000 * q / n) by long division, two digits at a time
LongDiv(q, n) == ((100 * q) \div n) * 100 + (100 * ((100 * q) % n)) \div n

\* 100 * dot / sqrt(n) in whole percent, as hundredths of a percent; a
\* document without terms is the zero vector and gives 0
CosPercent(dot, n) == IF n = 0 THEN 0 ELSE 100 * ISqrt(LongDiv(dot * dot, n))

RawOfTerms(r, j) == CosPercent(Dot(r, j), NormSq(r, j) * NormSq(j, r))

\* cosine_similarity(vecs[0:1], vecs[1:2])[0][0] * 100
raw_percentage(resume, jd) == RawOfTerms(tfidf_terms(resume), tfidf_terms(jd))

Cap == 9500

\* the boost without the cap: similarity * 1.5
calibrate_uncapped(similarity) == (similarity * 3) \div 2

\* min(similarity * 1.5, 95)
calibrate(similarity) == Min((similarity * 3) \div 2, Cap)

\* the result, and which return statement produced it; "failed" is the
\* except branch, which also reports the error with st.error
calculate_similarity(resume, jd) ==
    IF Blank(resume) \/ Blank(jd)
    THEN [score |-> 0, path |-> "empty"]
    ELSE IF Range(tfidf_terms(resume)) \cup Range(tfidf_terms(jd)) = {}
         THEN [score |-> 0, path |-> "failed"]
         ELSE [score |-> calibrate(raw_percentage(resume, jd)), path |-> "scored"]

(***************************************************************************)
(* analyze_missing.  The order in which a set of strings is iterated      *)
(* depends on the string hashes, which the interpreter salts per process:  *)
(* the variable hash_order is the order this process iterates keywords in. *)
(***************************************************************************)
common_words ==
    { <<"t","h","e">>, <<"a","n","d">>, <<"f","o","r">>, <<"w","i","t","h">>,
      <<"t","h","i","s">>, <<"t","h","a","t">>, <<"h","a","v","e">>,
      <<"h","a","s">> }

\* the difference without the stopwords taken out: job_words - resume_words
missing_set_keeps_stopwords(job_words, resume_words) == job_words \ resume_words

\* the difference without the resume: job_words - common_words
missing_set_ignores_resume(job_words, resume_words) == job_words \ common_words

\* job_words - resume_words - common_words
missing_set(job_words, resume_words) == (job_words \ resume_words) \ common_words

\* the elements of a set S of keywords in the order a loop over S visits
\* them, for a process whose hashes give the order `order`
SetIter(S, order) == SelectSeq(order, LAMBDA w : w \in S)

\* the sort without reverse=True: ascending counts
RECURSIVE InsertAsc(_, _)
InsertAsc(sorted, p) ==
    IF sorted = <<>> THEN <<p>>
    ELSE IF Head(sorted)[2] <= p[2]
         THEN <<Head(sorted)>> \o InsertAsc(Tail(sorted), p)
         ELSE <<p>> \o sorted

\* sorted(pairs, key=lambda x: x[1], reverse=True): a stable sort, equal
\* counts keep their order
RECURSIVE InsertDesc(_, _)
InsertDesc(sorted, p) ==
    IF sorted = <<>> THEN <<p>>
    ELSE IF Head(sorted)[2] >= p[2]
         THEN <<Head(sorted)>> \o InsertDesc(Tail(sorted), p)
         ELSE <<p>> \o sorted

RECURSIVE SortDesc(_, _)
SortDesc(pairs, acc) ==
    IF pairs = <<>> THEN acc
    ELSE SortDesc(Tail(pairs), InsertDesc(acc, Head(pairs)))

TopN == 5

\* [(word, job_word_counts[word]) for word in missing]
CountPairs(listed, job_kws) ==
    [k \in 1..Len(listed) |-> <<listed[k], Count(job_kws, listed[k])>>]

\* [word for word, count in pairs]
Words(pairs) == [k \in 1..Len(pairs) |-> pairs[k][1]]

\* lines 47-60, on the keyword lists of the two texts
top_missing(resume_kws, job_kws, order) ==
    Words(Take(SortDesc(CountPairs(SetIter(missing_set(Range(job_kws), Range(resume_kws)),
                                           order),
                                   job_kws),
                        <<>>),
               TopN))

\* fault: an exception raised inside the try block, which the bare except
\* turns into the empty list
analyze_missing(resume, jd, order, fault) ==
    IF fault THEN <<>> ELSE top_missing(get_keywords(resume), get_keywords(jd), order)

(***************************************************************************)
(* generate_tailored_suggestions.  A suggestion is the rule that emitted   *)
(* it and the text the rule interpolates into it (empty for a fixed line). *)
(***************************************************************************)
W_python == <<"p","y","t","h","o","n">>

W_cad == <<"c","a","d">>

W_data == <<"d","a","t","a">>

W_intern == <<"i","n","t","e","r","n">>

W_design == <<"d","e","s","i","g","n">>

W_analysis == <<"a","n","a","l","y","s","i","s">>

CommaSpace == <<",", " ">>

Line(rule, arg) == [rule |-> rule, arg |-> arg]

Fallback == Line("could_not_generate", <<>>)

\* what main() shows in place of an empty suggestion list
GoodAlignment == Line("good_alignment", <<>>)

SkillThreshold == 6000

\* the test with <= for <
skill_is_low_or_equal(skill) == skill <= SkillThreshold

\* skill_score < 60
skill_is_low(skill) == skill < SkillThreshold

\* what `if cond: suggestions.append(x)` adds to the list
When(cond, x) == IF cond THEN <<x>> ELSE <<>>

\* lines 70-92, on the missing keywords and the lowercased job description
rule_chain(missing_keywords, jd_lower, skill) ==
    When(missing_keywords # <<>>,
         Line("missing_keywords", Join(missing_keywords, CommaSpace)))
    \o When(missing_keywords # <<>> /\ skill_is_low(skill),
            Line("add_skills", Join(Take(missing_keywords, 3), CommaSpace)))
    \o When(missing_keywords # <<>> /\ W_python \in Range(missing_keywords),
            Line("python", <<>>))
    \o When(missing_keywords # <<>> /\ W_cad \in Range(missing_keywords),
            Line("cad", <<>>))
    \o When(missing_keywords # <<>> /\ W_data \in Range(missing_keywords),
            Line("data", <<>>))
    \o When(Contains(jd_lower, W_intern), Line("intern", <<>>))
    \o When(Contains(jd_lower, W_design), Line("design", <<>>))
    \o When(Contains(jd_lower, W_analysis), Line("analysis", <<>>))

\* chain_fault: an exception raised inside the try block of this function;
\* gap_fault: one raised inside analyze_missing
generate_tailored_suggestions(resume, jd, skill, order, gap_fault, chain_fault) ==
    IF chain_fault
    THEN <<Fallback>>
    ELSE rule_chain(analyze_missing(resume, jd, order, gap_fault), lower(jd), skill)

(***************************************************************************)
(* Words and texts the specifications draw their inputs from.              *)
(***************************************************************************)
W_sql == <<"s","q","l">>

W_git == <<"g","i","t">>

W_aws == <<"a","w","s">>

W_api == <<"a","p","i">>

W_the == <<"t","h","e">>

\* "Designs": the keyword "designs", which holds "design"
W_Designs == <<"D","e","s","i","g","n","s">>

W_3 == <<"3">>

Space == <<" ">>

\* every keyword a text of the specifications below can hold
KeywordUniverse ==
    << W_python, W_cad, W_data, W_intern, lower(W_Designs), W_analysis,
       W_sql, W_git, W_aws, W_api, W_the, W_design >>

Reverse(s) == [k \in 1..Len(s) |-> s[Len(s) + 1 - k]]

Rotate(s, n) == SubSeq(s, n + 1, Len(s)) \o SubSeq(s, 1, n)

\* iteration orders of three processes with different hash salts
HashOrders == {KeywordUniverse, Reverse(KeywordUniverse), Rotate(KeywordUniverse, 4)}

NoFaults == [gap |-> FALSE, chain |-> FALSE]

NoFile == [uploaded |-> FALSE, readable |-> FALSE, pages |-> <<>>]

NoCalls == [extract |-> 0, score |-> 0, suggest |-> 0]

NoScore == [score |-> 0, path |-> "none"]

\* the variables of main(), for the specifications that do not run it
MainIdle ==
    /\ resume_file = NoFile
    /\ job_inputs = <<>>
    /\ job_descriptions = <<>>
    /\ job_index = 0
    /\ results = <<>>
    /\ errors = <<>>
    /\ calls = NoCalls

MainVars == <<resume_file, job_inputs, job_descriptions, job_index, results, errors, calls>>

\* the variables of the core functions, before any of them ran
CoreIdle ==
    /\ score_out = NoScore
    /\ missing_out = <<>>
    /\ suggestions_out = <<>>
    /\ suggestions_again = <<>>
    /\ faults = NoFaults

(***************************************************************************)
(* Specification SpecKw: get_keywords applied to every short text over an  *)
(* alphabet with one character of each class.                              *)
(***************************************************************************)
MaxLen == 7

KwAlphabet == {"a", "B", "3", "_", " "}

TextsUpTo(n, alphabet) == UNION {[1..k -> alphabet] : k \in 0..n}

InitKw ==
    /\ pc = "start"
    /\ text \in TextsUpTo(MaxLen, KwAlphabet)
    /\ keywords_out = <<>>
    /\ resume_text = <<>>
    /\ job_desc = <<>>
    /\ skill_score = 0
    /\ hash_order = KeywordUniverse
    /\ CoreIdle
    /\ MainIdle

GetKeywords ==
    /\ pc = "start"
    /\ keywords_out' = get_keywords(text)
    /\ pc' = "done"
    /\ UNCHANGED <<text, resume_text, job_desc, skill_score, hash_order, score_out,
                   missing_out, suggestions_out, suggestions_again, faults, MainVars>>

NextKw == GetKeywords

SpecKw == InitKw /\ [][NextKw]_vars

(***************************************************************************)
(* Specification SpecGap: analyze_missing on job descriptions that repeat  *)
(* each of six words up to MaxCount times, enough for more than TopN       *)
(* candidates with different and with equal counts.                        *)
(***************************************************************************)
MaxCount == 2

GapWords == << W_cad, W_sql, W_git, W_aws, W_api, W_data >>

RECURSIVE Repeat(_, _)
Repeat(w, n) == IF n = 0 THEN <<>> ELSE <<w>> \o Repeat(w, n - 1)

RECURSIVE WordsByCount(_, _, _)
WordsByCount(words, c, k) ==
    IF k > Len(words) THEN <<>>
    ELSE Repeat(words[k], c[k]) \o WordsByCount(words, c, k + 1)

\* each word up to MaxCount times, with or without a stopword in front
GapJobs ==
    {Join(lead \o WordsByCount(GapWords, c, 1), Space) :
        lead \in {<<>>, <<W_the>>}, c \in [1..Len(GapWords) -> 0..MaxCount]}

GapResumes == {<<>>, Join(GapWords \o <<W_the>>, Space), Join(<<W_cad, W_the>>, Space)}

InitGap ==
    /\ pc = "start"
    /\ text = <<>>
    /\ keywords_out = <<>>
    /\ resume_text \in GapResumes
    /\ job_desc \in GapJobs
    /\ skill_score = 0
    /\ hash_order \in HashOrders
    /\ CoreIdle
    /\ MainIdle

AnalyzeMissing ==
    /\ pc = "start"
    /\ \E fault \in BOOLEAN :
         /\ missing_out' = analyze_missing(resume_text, job_desc, hash_order, fault)
         /\ faults' = [faults EXCEPT !.gap = fault]
    /\ pc' = "done"
    /\ UNCHANGED <<text, keywords_out, resume_text, job_desc, skill_score, hash_order,
                   score_out, suggestions_out, suggestions_again, MainVars>>

NextGap == AnalyzeMissing

SpecGap == InitGap /\ [][NextGap]_vars

(***************************************************************************)
(* Specification SpecCore: calculate_similarity and                        *)
(* generate_tailored_suggestions on texts of up to MaxWords words, and on  *)
(* one job description with more than TopN missing keywords.  The resume   *)
(* is the job description itself or a text of at most one word.            *)
(***************************************************************************)
MaxWords == 2

CorePieces == {W_python, W_cad, W_data, W_intern, W_Designs, W_analysis, W_3}

TextsOfWords(n, pieces) == {Join(ws, Space) : ws \in UNION {[1..k -> pieces] : k \in 0..n}}

LongJob ==
    Join(<<W_python, W_cad, W_data, W_intern, W_Designs, W_analysis, W_sql>>, Space)

CoreJobs == TextsOfWords(MaxWords, CorePieces) \cup {LongJob}

SkillScores == {4750, 5999, 6000}

InitCore ==
    /\ pc = "start"
    /\ text = <<>>
    /\ keywords_out = <<>>
    /\ job_desc \in CoreJobs
    /\ resume_text \in {job_desc} \cup TextsOfWords(1, CorePieces)
    /\ skill_score \in SkillScores
    /\ hash_order \in HashOrders
    /\ CoreIdle
    /\ MainIdle

Score ==
    /\ pc = "start"
    /\ score_out' = calculate_similarity(resume_text, job_desc)
    /\ pc' = "scored"
    /\ UNCHANGED <<text, keywords_out, resume_text, job_desc, skill_score, hash_order,
                   missing_out, suggestions_out, suggestions_again, faults, MainVars>>

Suggest ==
    /\ pc = "start"
    /\ \E gap_fault \in BOOLEAN, chain_fault \in BOOLEAN :
         /\ suggestions_out' =
                generate_tailored_suggestions(resume_text, job_desc, skill_score,
                                              hash_order, gap_fault, chain_fault)
         /\ missing_out' = analyze_missing(resume_text, job_desc, hash_order, gap_fault)
         /\ faults' = [gap |-> gap_fault, chain |-> chain_fault]
    /\ pc' = "suggested"
    /\ UNCHANGED <<text, keywords_out, resume_text, job_desc, skill_score, hash_order,
                   score_out, suggestions_again, MainVars>>

NextCore == Score \/ Suggest

SpecCore == InitCore /\ [][NextCore]_vars

(***************************************************************************)
(* Specification SpecDet: generate_tailored_suggestions called twice with  *)
(* the same arguments, in one process or across a restart of the           *)
(* interpreter, which salts the string hashes anew.                        *)
(***************************************************************************)
DetPieces == {W_cad, W_data, W_intern}

InitDet ==
    /\ pc = "start"
    /\ text = <<>>
    /\ keywords_out = <<>>
    /\ job_desc \in TextsOfWords(2, DetPieces)
    /\ resume_text \in {<<>>, W_cad}
    /\ skill_score \in {4750}
    /\ hash_order \in HashOrders
    /\ CoreIdle
    /\ MainIdle

SuggestFirst ==
    /\ pc = "start"
    /\ suggestions_out' =
           generate_tailored_suggestions(resume_text, job_desc, skill_score,
                                         hash_order, FALSE, FALSE)
    /\ pc' = "suggested"
    /\ UNCHANGED <<text, keywords_out, resume_text, job_desc, skill_score, hash_order,
                   score_out, missing_out, suggestions_again, faults, MainVars>>

Restart ==
    /\ pc = "suggested"
    /\ hash_order' \in HashOrders
    /\ pc' = "restarted"
    /\ UNCHANGED <<text, keywords_out, resume_text, job_desc, skill_score, score_out,
                   missing_out, suggestions_out, suggestions_again, faults, MainVars>>

SuggestAgain ==
    /\ pc \in {"suggested", "restarted"}
    /\ suggestions_again' =
           generate_tailored_suggestions(resume_text, job_desc, skill_score,
                                         hash_order, FALSE, FALSE)
    /\ pc' = "twice"
    /\ UNCHANGED <<text, keywords_out, resume_text, job_desc, skill_score, hash_order,
                   score_out, missing_out, suggestions_out, faults, MainVars>>

NextDet == SuggestFirst \/ Restart \/ SuggestAgain

SpecDet == InitDet /\ [][NextDet]_vars

(***************************************************************************)
(* main().  extract_text_from_pdf reads an uploaded file page by page; a   *)
(* page without text yields None, an unreadable file raises.               *)
(***************************************************************************)
NonePage == [some |-> FALSE, text |-> <<>>]

Page(t) == [some |-> TRUE, text |-> t]

Pdf(pages) == [uploaded |-> TRUE, readable |-> TRUE, pages |-> pages]

Corrupt == [uploaded |-> TRUE, readable |-> FALSE, pages |-> <<>>]

\* text += page.extract_text() or "", over the pages
RECURSIVE ConcatPages(_)
ConcatPages(pages) ==
    IF pages = <<>> THEN <<>>
    ELSE (IF Head(pages).some THEN Head(pages).text ELSE <<>>) \o ConcatPages(Tail(pages))

\* the text returned, and whether the except branch reported an error
extract_text_from_pdf(file) ==
    IF file.readable
    THEN [text |-> ConcatPages(file.pages), error |-> FALSE]
    ELSE [text |-> <<>>, error |-> TRUE]

\* round(n / d, 2) of a value in hundredths: to the nearest, ties to even
RoundDiv(n, d) ==
    LET q == n \div d
        r == n % d
    IN  IF 2 * r > d \/ (2 * r = d /\ q % 2 = 1) THEN q + 1 ELSE q

\* the skill score without its weight: round(score, 2)
skill_of_unweighted(score) == RoundDiv(score * 10, 10)

\* round(score * 0.5, 2)
skill_of(score) == RoundDiv(score * 5, 10)

\* round(score * 0.2, 2)
exp_of(score) == RoundDiv(score * 2, 10)

\* round(score * 0.3, 2)
edu_of(score) == RoundDiv(score * 3, 10)

\* [desc for desc in job_descriptions if desc.strip() != ""]
NonBlank(descs) == SelectSeq(descs, LAMBDA d : ~Blank(d))

\* lines 115-121 without the return at line 119: the error is reported and
\* the loop is entered all the same
Extracted_NoReturn(got) ==
    /\ resume_text' = clean_text(got.text)
    /\ calls' = [calls EXCEPT !.extract = @ + 1]
    /\ errors' = errors \o When(got.error, "pdf_error")
                        \o When(Blank(clean_text(got.text)), "no_text")
    /\ pc' = "score"
    /\ job_index' = 1

\* lines 115-121, with what extract_text_from_pdf returned: a resume
\* without text is reported and ends the run
Extracted(got) ==
    /\ resume_text' = clean_text(got.text)
    /\ calls' = [calls EXCEPT !.extract = @ + 1]
    /\ IF Blank(clean_text(got.text))
       THEN /\ errors' = errors \o When(got.error, "pdf_error") \o <<"no_text">>
            /\ pc' = "done"
            /\ job_index' = job_index
       ELSE /\ errors' = errors \o When(got.error, "pdf_error")
            /\ pc' = "score"
            /\ job_index' = 1

\* lines 103-121: the inputs are read; without a file or without a job
\* description nothing is analysed
Render ==
    /\ pc = "start"
    /\ job_descriptions' = NonBlank(job_inputs)
    /\ IF resume_file.uploaded /\ NonBlank(job_inputs) # <<>>
       THEN Extracted(extract_text_from_pdf(resume_file))
       ELSE /\ pc' = "done"
            /\ UNCHANGED <<resume_text, calls, errors, job_index>>
    /\ UNCHANGED <<text, keywords_out, job_desc, skill_score, hash_order, score_out,
                   missing_out, suggestions_out, suggestions_again, faults,
                   resume_file, job_inputs, results>>

\* lines 129-133, with what calculate_similarity returned
Scored(got) ==
    /\ score_out' = got
    /\ skill_score' = skill_of(got.score)
    /\ errors' = errors \o When(got.path = "failed", "similarity_error")

\* lines 126-133 with a calculate_similarity that has no try/except: the
\* exception of a failed vectorisation ends the run
ScoreJob_Unprotected ==
    /\ pc = "score"
    /\ Scored(calculate_similarity(resume_text, clean_text(job_descriptions[job_index])))
    /\ calls' = [calls EXCEPT !.score = @ + 1]
    /\ pc' = IF calculate_similarity(resume_text,
                    clean_text(job_descriptions[job_index])).path = "failed"
             THEN "done" ELSE "suggest"
    /\ UNCHANGED <<text, keywords_out, resume_text, job_desc, hash_order, missing_out,
                   suggestions_out, suggestions_again, faults, resume_file, job_inputs,
                   job_descriptions, job_index, results>>

\* lines 126-133: the job description is cleaned and scored
ScoreJob ==
    /\ pc = "score"
    /\ Scored(calculate_similarity(resume_text, clean_text(job_descriptions[job_index])))
    /\ calls' = [calls EXCEPT !.score = @ + 1]
    /\ pc' = "suggest"
    /\ UNCHANGED <<text, keywords_out, resume_text, job_desc, hash_order, missing_out,
                   suggestions_out, suggestions_again, faults, resume_file, job_inputs,
                   job_descriptions, job_index, results>>

\* lines 136-154, with what generate_tailored_suggestions returned: the
\* scores and either the suggestions or the good-alignment message
Rendered(suggestions, gap_fault, chain_fault) ==
    /\ suggestions_out' = suggestions
    /\ faults' = [gap |-> gap_fault, chain |-> chain_fault]
    /\ results' = Append(results,
           [job         |-> job_index,
            score_path  |-> score_out.path,
            skills      |-> skill_score,
            experience  |-> exp_of(score_out.score),
            education   |-> edu_of(score_out.score),
            overall     |-> score_out.score,
            gap_fault   |-> gap_fault,
            chain_fault |-> chain_fault,
            shown       |-> IF suggestions = <<>> THEN <<GoodAlignment>> ELSE suggestions])

\* lines 136-154: the suggestions for the job are generated from the raw
\* job description and rendered, and the loop goes on to the next job
SuggestJob ==
    /\ pc = "suggest"
    /\ \E gap_fault \in BOOLEAN, chain_fault \in BOOLEAN :
         Rendered(generate_tailored_suggestions(resume_text, job_descriptions[job_index],
                      skill_score, hash_order, gap_fault, chain_fault),
                  gap_fault, chain_fault)
    /\ calls' = [calls EXCEPT !.suggest = @ + 1]
    /\ IF job_index < Len(job_descriptions)
       THEN job_index' = job_index + 1 /\ pc' = "score"
       ELSE job_index' = job_index /\ pc' = "done"
    /\ UNCHANGED <<text, keywords_out, resume_text, job_desc, skill_score, hash_order,
                   score_out, missing_out, suggestions_again, resume_file, job_inputs,
                   job_descriptions, errors>>

(***************************************************************************)
(* Specification SpecMain: one run of main() for every choice of file and  *)
(* of the three text areas from a few texts.                               *)
(***************************************************************************)
T_blank == <<" ", "\n">>

T_cad_data == W_cad \o <<" ", " ">> \o W_data

T_Python_intern == <<"P">> \o Tail(W_python) \o <<"\n">> \o W_intern

T_cad3_data == Join(<<W_cad, W_cad, W_cad, W_data>>, Space)

MainJobTexts == {<<>>, T_blank, W_3, T_cad_data, T_cad3_data, T_Python_intern}

MainFiles ==
    { NoFile, Corrupt, Pdf(<<>>), Pdf(<<NonePage>>), Pdf(<<Page(T_blank), NonePage>>),
      Pdf(<<Page(W_3)>>), Pdf(<<Page(W_cad)>>),
      Pdf(<<Page(W_cad \o <<"\n">>), NonePage, Page(<<"S","Q","L">>)>>) }

TextAreas == 3

InitMain ==
    /\ pc = "start"
    /\ text = <<>>
    /\ keywords_out = <<>>
    /\ resume_text = <<>>
    /\ job_desc = <<>>
    /\ skill_score = 0
    /\ hash_order \in HashOrders
    /\ CoreIdle
    /\ resume_file \in MainFiles
    /\ job_inputs \in [1..TextAreas -> MainJobTexts]
    /\ job_descriptions = <<>>
    /\ job_index = 0
    /\ results = <<>>
    /\ errors = <<>>
    /\ calls = NoCalls

NextMain == Render \/ ScoreJob \/ SuggestJob

SpecMain == InitMain /\ [][NextMain]_vars

(***************************************************************************)
(* The claims.  What a claim says about keywords, stopwords, substrings    *)
(* and rule order is stated here on its own terms, apart from the          *)
(* definitions above.                                                      *)
(***************************************************************************)
ClaimStopwords ==
    { <<"t","h","e">>, <<"a","n","d">>, <<"f","o","r">>, <<"w","i","t","h">>,
      <<"t","h","i","s">>, <<"t","h","a","t">>, <<"h","a","v","e">>,
      <<"h","a","s">> }

\* the keywords among job_kws that are neither keywords of the resume nor
\* stopwords
Candidates(job_kws, resume_kws) == (Range(job_kws) \ Range(resume_kws)) \ ClaimStopwords

\* w occurs in t
HasSubstring(t, w) == \E k \in 0..(Len(t) - Len(w)) : \A n \in 1..Len(w) : t[k + n] = w[n]

HasRule(lines, rule) == \E k \in 1..Len(lines) : lines[k].rule = rule

\* C1 for the result m of analyze_missing on texts with the keyword lists
\* job_kws and resume_kws
MissingContract(m, job_kws, resume_kws) ==
    /\ Len(m) <= 5
    /\ \A a, b \in 1..Len(m) : m[a] = m[b] => a = b
    /\ \A k \in 1..Len(m) :
          /\ m[k] \in Range(job_kws)
          /\ m[k] \notin Range(resume_kws)
          /\ m[k] \notin ClaimStopwords
    /\ (Range(job_kws) \subseteq Range(resume_kws) => m = <<>>)

\* C1: analyze_missing returns at most 5 distinct entries, each a keyword of
\* the job text, not a keyword of the resume text and not a stopword; so it
\* returns nothing when the resume keywords include the job keywords.
C1_MissingKeywordsContract ==
    pc = "done" =>
        IF faults.gap
        THEN missing_out = <<>>
        ELSE MissingContract(missing_out, get_keywords(job_desc), get_keywords(resume_text))

\* a stopword and a resume keyword in the job text, neither returned, and
\* five entries returned
C1_Witness ==
    /\ pc = "done"
    /\ ~faults.gap
    /\ Len(missing_out) = 5
    /\ W_the \in Range(get_keywords(job_desc))
    /\ W_cad \in Range(get_keywords(job_desc)) \cap Range(get_keywords(resume_text))
    /\ W_cad \notin Range(missing_out)
    /\ W_the \notin Range(missing_out)

\* C8 for the result m of analyze_missing, the keyword list of the job text
\* and the candidates
Ranked(m, job_kws, cands) ==
    /\ \A a, b \in 1..Len(m) : a < b => Count(job_kws, m[a]) >= Count(job_kws, m[b])
    /\ \A c \in cands \ Range(m) :
          \A k \in 1..Len(m) : Count(job_kws, c) <= Count(job_kws, m[k])
    /\ Len(m) = IF Cardinality(cands) < 5 THEN Cardinality(cands) ELSE 5

\* C8: the entries analyze_missing returns are in non-increasing order of
\* their number of occurrences in the job text, and no candidate left out
\* occurs more often than one returned; absent a failure the five most
\* frequent candidates, or all of them, are returned, and on a failure none.
C8_RankedByFrequency ==
    pc = "done" =>
        IF faults.gap
        THEN missing_out = <<>>
        ELSE Ranked(missing_out, get_keywords(job_desc),
                    Candidates(get_keywords(job_desc), get_keywords(resume_text)))

\* a truncated result with entries of different and of equal counts
TruncatedMixed(m, job_kws, cands) ==
    /\ Len(m) = 5
    /\ cands \ Range(m) # {}
    /\ Count(job_kws, m[1]) > Count(job_kws, m[5])
    /\ Count(job_kws, m[4]) = Count(job_kws, m[5])

C8_Witness ==
    /\ pc = "done"
    /\ ~faults.gap
    /\ TruncatedMixed(missing_out, get_keywords(job_desc),
                      Candidates(get_keywords(job_desc), get_keywords(resume_text)))

\* C3: calculate_similarity returns a score between 0 and 95: 0 when either
\* text is blank and when vectorisation fails, and min(1.5 * raw, 95) of
\* the raw cosine percentage otherwise.
C3_ScoreWithinCap ==
    pc = "scored" =>
        /\ score_out.score >= 0
        /\ score_out.score <= 9500
        /\ score_out.path \in {"empty", "failed", "scored"}
        /\ (score_out.path = "empty") = (Blank(resume_text) \/ Blank(job_desc))
        /\ (score_out.path \in {"empty", "failed"} => score_out.score = 0)
        /\ (score_out.path = "scored" =>
               /\ raw_percentage(resume_text, job_desc) \in 0..10000
               /\ score_out.score =
                      IF 3 * raw_percentage(resume_text, job_desc) >= 2 * 9500
                      THEN 9500
                      ELSE (3 * raw_percentage(resume_text, job_desc)) \div 2)

\* a score the cap cut down: 1.5 times the raw percentage is above 95
C3_Witness ==
    /\ pc = "scored"
    /\ score_out.path = "scored"
    /\ score_out.score = 9500
    /\ 3 * raw_percentage(resume_text, job_desc) > 2 * 9500

\* the order of the rules of the chain
RuleRank ==
    [missing_keywords |-> 1, add_skills |-> 2, python |-> 3, cad |-> 4, data |-> 5,
     intern |-> 6, design |-> 7, analysis |-> 8]

\* when the claim has a rule emit its line
RuleFires(rule) ==
    CASE rule = "missing_keywords" -> missing_out # <<>>
      [] rule = "add_skills"       -> missing_out # <<>> /\ skill_score < 6000
      [] rule = "python"           -> W_python \in Range(missing_out)
      [] rule = "cad"              -> W_cad \in Range(missing_out)
      [] rule = "data"             -> W_data \in Range(missing_out)
      [] rule = "intern"           -> HasSubstring(lower(job_desc), W_intern)
      [] rule = "design"           -> HasSubstring(lower(job_desc), W_design)
      [] rule = "analysis"         -> HasSubstring(lower(job_desc), W_analysis)

\* C9: absent a failure generate_tailored_suggestions returns the lines of
\* the fixed rule chain, each at most once, in the order of the rules, a
\* line being present exactly when its rule fires; on a failure it returns
\* the fallback line alone.
C9_RuleChain ==
    pc = "suggested" =>
        IF faults.chain
        THEN suggestions_out = <<[rule |-> "could_not_generate", arg |-> <<>>]>>
        ELSE /\ \A k \in 1..Len(suggestions_out) :
                    suggestions_out[k].rule \in DOMAIN RuleRank
             /\ \A a, b \in 1..Len(suggestions_out) :
                    a < b => RuleRank[suggestions_out[a].rule] < RuleRank[suggestions_out[b].rule]
             /\ \A rule \in DOMAIN RuleRank :
                    HasRule(suggestions_out, rule) = RuleFires(rule)
             /\ \A k \in 1..Len(suggestions_out) :
                    suggestions_out[k].arg =
                        CASE suggestions_out[k].rule = "missing_keywords" ->
                                 Join(missing_out, <<",", " ">>)
                          [] suggestions_out[k].rule = "add_skills" ->
                                 Join(SubSeq(missing_out, 1,
                                             IF Len(missing_out) < 3 THEN Len(missing_out) ELSE 3),
                                      <<",", " ">>)
                          [] OTHER -> <<>>

\* a chain in which the missing-keyword, skills, Python and intern rules fire
C9_Witness ==
    /\ pc = "suggested"
    /\ ~faults.chain
    /\ HasRule(suggestions_out, "missing_keywords")
    /\ HasRule(suggestions_out, "add_skills")
    /\ HasRule(suggestions_out, "python")
    /\ HasRule(suggestions_out, "intern")
    /\ Len(missing_out) > 3

\* a resume that is the job description, character for character
SameText == resume_text = job_desc /\ job_desc # <<>>

\* C2 as stated: for a resume identical to the job description no keyword
\* is missing and the suggestion list is empty.
C2_IdenticalTextsNoSuggestions ==
    (pc = "suggested" /\ SameText /\ ~faults.chain /\ ~faults.gap) =>
        /\ missing_out = <<>>
        /\ suggestions_out = <<>>

\* C2 as amended: for a resume identical to the job description no keyword
\* is missing, and absent a failure the suggestions are exactly the
\* job-type lines whose word occurs in the lowercased job description: the
\* list is empty only if intern, design and analysis all do not occur.
C2_IdenticalTextsOnlyJobTypeLines ==
    (pc = "suggested" /\ SameText /\ ~faults.chain) =>
        /\ missing_out = <<>>
        /\ \A k \in 1..Len(suggestions_out) :
              suggestions_out[k].rule \in {"intern", "design", "analysis"}
        /\ \A rule \in {"intern", "design", "analysis"} :
              HasRule(suggestions_out, rule) = RuleFires(rule)
        /\ (suggestions_out = <<>>) =
              (\A rule \in {"intern", "design", "analysis"} : ~RuleFires(rule))

\* identical texts with a job-type word: the list is not empty
C2_Witness ==
    /\ pc = "suggested"
    /\ SameText
    /\ ~faults.chain
    /\ ~faults.gap
    /\ missing_out = <<>>
    /\ suggestions_out # <<>>

\* C6: two calls of generate_tailored_suggestions with the same arguments
\* return the same sequence, the order of equally frequent keywords in the
\* missing-keywords line included.
C6_SameSequenceEveryCall == pc = "twice" => suggestions_again = suggestions_out

\* the maximal runs of lowercase letters of t, as <<first, last>> positions
LetterRuns(t) ==
    {r \in (1..Len(t)) \X (1..Len(t)) :
        /\ r[1] <= r[2]
        /\ \A k \in r[1]..r[2] : t[k] \in LowerChars
        /\ (r[1] = 1 \/ t[r[1] - 1] \notin LowerChars)
        /\ (r[2] = Len(t) \/ t[r[2] + 1] \notin LowerChars)}

\* the runs of 3 or more letters: what C7 as stated has get_keywords return
ClaimedRuns(t) == {r \in LetterRuns(t) : r[2] - r[1] + 1 >= 3}

\* those of them with no letter, digit or underscore next to them
BoundedRuns(t) ==
    {r \in ClaimedRuns(t) :
        /\ (r[1] = 1 \/ ~IsWordChar(t[r[1] - 1]))
        /\ (r[2] = Len(t) \/ ~IsWordChar(t[r[2] + 1]))}

\* the texts of the runs, from left to right
RECURSIVE RunTexts(_, _)
RunTexts(t, runs) ==
    IF runs = {} THEN <<>>
    ELSE LET first == CHOOSE r \in runs : \A q \in runs : r[1] <= q[1]
         IN  <<SubSeq(t, first[1], first[2])>> \o RunTexts(t, runs \ {first})

\* C7 as stated: get_keywords returns, from left to right, the maximal runs
\* of 3 or more letters of the lowercased text.
C7_AllLetterRuns ==
    pc = "done" => keywords_out = RunTexts(lower(text), ClaimedRuns(lower(text)))

\* C7 as amended: get_keywords returns, from left to right and with
\* duplicates, the maximal runs of 3 or more letters of the lowercased text
\* that have no word character (letter, digit or underscore) on either
\* side; no token is shorter than 3 characters or holds a non-letter.
C7_RunsBetweenWordBoundaries ==
    pc = "done" =>
        /\ keywords_out = RunTexts(lower(text), BoundedRuns(lower(text)))
        /\ \A k \in 1..Len(keywords_out) :
              /\ Len(keywords_out[k]) >= 3
              /\ \A n \in 1..Len(keywords_out[k]) : keywords_out[k][n] \in LowerChars

\* a run of letters next to a digit or an underscore, which is left out,
\* in a text that had a capital letter folded
C7_Witness ==
    /\ pc = "done"
    /\ ClaimedRuns(lower(text)) # BoundedRuns(lower(text))
    /\ \E k \in 1..Len(text) : text[k] \in UpperChars

\* the resume text was extracted and is blank
NoResumeText == calls.extract = 1 /\ Blank(resume_text)

\* C4: when the extracted and cleaned resume text is blank, as it is when
\* the file cannot be read, the run reports an error and ends: no job is
\* scored and no suggestions are generated.
C4_NoAnalysisWithoutText ==
    /\ (calls.extract = 1 /\ ~resume_file.readable) =>
           (Blank(resume_text) /\ \E k \in 1..Len(errors) : errors[k] = "pdf_error")
    /\ NoResumeText =>
           /\ pc = "done"
           /\ \E k \in 1..Len(errors) : errors[k] = "no_text"
           /\ calls.score = 0
           /\ calls.suggest = 0
           /\ results = <<>>

\* an unreadable file with three job descriptions waiting
C4_Witness ==
    /\ NoResumeText
    /\ ~resume_file.readable
    /\ Len(job_descriptions) = 3

\* what main() shows for suggestions sg
Shown(sg) == IF sg = <<>> THEN <<[rule |-> "good_alignment", arg |-> <<>>]>> ELSE sg

\* what main() renders for a job, from the resume, that job's description,
\* the exceptions raised while it was analysed, and its score sc
RenderedFrom(res, resume, desc, order, sc) ==
    /\ res.overall = sc.score
    /\ res.score_path = sc.path
    /\ (sc.path = "failed" => res.overall = 0)
    /\ res.shown =
           IF res.chain_fault
           THEN <<[rule |-> "could_not_generate", arg |-> <<>>]>>
           ELSE Shown(generate_tailored_suggestions(resume, desc, RoundDiv(sc.score, 2),
                                                    order, res.gap_fault, FALSE))

\* C5: a failure while a job is analysed stays with that job: its score is
\* 0 or its suggestions are the fallback line, its other steps still run,
\* and every job is scored and given suggestions that depend on the resume
\* and its own description only.
C5_FailuresIsolated ==
    /\ Len(results) <= Len(job_descriptions)
    /\ \A j \in 1..Len(results) :
          /\ results[j].job = j
          /\ RenderedFrom(results[j], resume_text, job_descriptions[j], hash_order,
                 calculate_similarity(resume_text, clean_text(job_descriptions[j])))
    /\ (pc = "done" /\ calls.extract = 1 /\ ~Blank(resume_text)) =>
          /\ Len(results) = Len(job_descriptions)
          /\ calls.score = Len(job_descriptions)
          /\ calls.suggest = Len(job_descriptions)
          /\ Cardinality({k \in 1..Len(errors) : errors[k] = "similarity_error"})
                 = Cardinality({j \in 1..Len(results) : results[j].score_path = "failed"})

\* three jobs: scoring fails for the first, suggesting for the second, and
\* the third is analysed without a failure
C5_Witness ==
    /\ pc = "done"
    /\ Len(results) = 3
    /\ results[1].score_path = "failed"
    /\ ~results[1].chain_fault
    /\ results[2].chain_fault
    /\ results[3].score_path = "scored"
    /\ ~results[3].chain_fault
    /\ HasRule(results[3].shown, "missing_keywords")

\* C10: the skill score main() hands to the suggestion generator is half a
\* score of at most 95, so at most 47.5 and below the threshold of 60: in
\* every analysed job the add-skills line comes with the missing-keywords
\* line.
C10_SkillScoreBelowThreshold ==
    /\ (pc = "suggest" => skill_score <= 4750 /\ skill_score < 6000)
    /\ \A j \in 1..Len(results) :
          /\ results[j].skills <= 4750
          /\ 2 * results[j].skills - results[j].overall \in -1..1
          /\ (HasRule(results[j].shown, "missing_keywords")
                 => HasRule(results[j].shown, "add_skills"))

\* a job scored at the cap, so with the largest skill score, and with both
\* lines shown
C10_Witness ==
    \E j \in 1..Len(results) :
        /\ results[j].overall = 9500
        /\ results[j].skills = 4750
        /\ HasRule(results[j].shown, "missing_keywords")
        /\ HasRule(results[j].shown, "add_skills")

====
